---- MODULE Spec2Model ----
(***************************************************************************)
(* The tool-execution layer of code-investigator: the path guard           *)
(* (utils/file_utils.py) and the filesystem tools list_files, cat_file and *)
(* grep_file (tools/file_tools.py), run against a filesystem that an       *)
(* external actor may change between any two steps of a tool call.         *)
(* Python strings are TLA+ strings; paths, lines and results are built and *)
(* taken apart character by character as the code does.                    *)
(***************************************************************************)
EXTENDS Integers, Sequences, FiniteSets, TLC

VARIABLES
    fs,        \* the filesystem: absolute path -> [kind, data]
    envSteps,  \* number of changes the external actor has made
    pc,        \* position of the tool call: idle, guard, valid, body, done
    op,        \* the tool called: list_files, cat_file, grep_file
    args,      \* its arguments
    verdict,   \* what filename_unsafe returned in this call
    seen,      \* what the call found on disk: where its path led when the guard
               \* ran, the kind of entry at its validity check and at its body,
               \* the contents it read
    io,        \* the filesystem operations the tool itself performed after the guard
    result,    \* the returned string
    raised,    \* the exception that left the tool, or "none"
    prev       \* history: the call delivered before this one, with the tree it
               \* ran on and what it gave; kept where two calls are compared

vars == <<fs, envSteps, pc, op, args, verdict, seen, io, result, raised, prev>>

(***************************************************************************)
(* Bounds of the model.                                                    *)
(***************************************************************************)
\* changes the external actor makes in one behaviour
MaxEnvSteps == 2
\* largest before/after context count the agent passes to grep_file
MaxCtx == 2
\* symbolic links followed while resolving one path
MaxLinkHops == 2
\* lines of a mermaid block built from more than one line
MaxBlockLines == 2

(***************************************************************************)
(* Python str operations.                                                  *)
(***************************************************************************)
Min(a, b) == IF a < b THEN a ELSE b
Max(a, b) == IF a < b THEN b ELSE a

\* the characters that occur in the model, in code-point order
CodePoints == "\n #()-./0123456789:ABCDEFGHIJKLMNOPQRSTUVWXYZ_abcdefghijklmnopqrstuvwxyz"
UpperCase == "ABCDEFGHIJKLMNOPQRSTUVWXYZ"
LowerCase == "abcdefghijklmnopqrstuvwxyz"

CharAt(str, i) == SubSeq(str, i, i)

Ord(c) == CHOOSE i \in 1..Len(CodePoints) : CharAt(CodePoints, i) = c

\* a < b on Python strings: by code point at the first difference, else by length
StrLess(a, b) ==
    LET n == Min(Len(a), Len(b))
        D == {i \in 1..n : CharAt(a, i) # CharAt(b, i)}
    IN  IF D = {} THEN Len(a) < Len(b)
        ELSE LET i == CHOOSE k \in D : \A j \in D : k <= j
             IN  Ord(CharAt(a, i)) < Ord(CharAt(b, i))

StartsWith(str, prefix) ==
    /\ Len(prefix) <= Len(str)
    /\ SubSeq(str, 1, Len(prefix)) = prefix

\* sub in str
Contains(str, sub) ==
    \E i \in 1..(Len(str) - Len(sub) + 1) : SubSeq(str, i, i + Len(sub) - 1) = sub

LowerChar(c) ==
    IF \E i \in 1..Len(UpperCase) : CharAt(UpperCase, i) = c
    THEN CharAt(LowerCase, CHOOSE i \in 1..Len(UpperCase) : CharAt(UpperCase, i) = c)
    ELSE c

RECURSIVE Lower(_)
Lower(str) == IF str = "" THEN "" ELSE LowerChar(Head(str)) \o Lower(Tail(str))

\* str.split(sep) for a one-character sep
Split(str, sep) ==
    LET P == {i \in 1..Len(str) : CharAt(str, i) = sep}
        n == Cardinality(P)
        Pos(k) == IF k = 0 THEN 0
                  ELSE IF k = n + 1 THEN Len(str) + 1
                  ELSE CHOOSE i \in P : Cardinality({j \in P : j < i}) = k - 1
    IN  [k \in 1..(n + 1) |-> SubSeq(str, Pos(k - 1) + 1, Pos(k) - 1)]

\* sep.join(items)
RECURSIVE Join(_, _)
Join(items, sep) ==
    IF items = <<>> THEN ""
    ELSE IF Len(items) = 1 THEN items[1]
    ELSE items[1] \o sep \o Join(Tail(items), sep)

\* sorted(set(items)) of a set of strings
RECURSIVE SortedSet(_)
SortedSet(S) ==
    IF S = {} THEN <<>>
    ELSE LET m == CHOOSE x \in S : \A y \in S : x = y \/ StrLess(x, y)
         IN  <<m>> \o SortedSet(S \ {m})

\* a sequence holding the elements of S in the reverse of sorted order
RECURSIVE ReverseSortedSet(_)
ReverseSortedSet(S) ==
    IF S = {} THEN <<>>
    ELSE LET m == CHOOSE x \in S : \A y \in S : x = y \/ StrLess(x, y)
         IN  ReverseSortedSet(S \ {m}) \o <<m>>

(***************************************************************************)
(* pathlib: Path(filename).parts, is_absolute, str(path).                  *)
(***************************************************************************)
Segments(filename) == SelectSeq(Split(filename, "/"), LAMBDA t : t # "" /\ t # ".")

IsAbsolute(filename) == StartsWith(filename, "/")

Parts(filename) ==
    IF IsAbsolute(filename) THEN <<"/">> \o Segments(filename) ELSE Segments(filename)

\* str(Path(...)) of a relative path given by its parts
PathStr(parts) == IF parts = <<>> THEN "." ELSE Join(parts, "/")

(***************************************************************************)
(* The filesystem.  The process runs in /w/proj; /w/proj2 is a sibling     *)
(* directory whose name has the working directory's name as a prefix.      *)
(***************************************************************************)
Cwd == "/w/proj"

Absent == [kind |-> "absent", data |-> ""]
Dir == [kind |-> "dir", data |-> ""]
File(content) == [kind |-> "file", data |-> content]
Link(target) == [kind |-> "link", data |-> target]

\* six lines, one match of "foo" in the middle
SixLines == "ab\ncd\nfoo\nef\ngh\nij\n"
\* four lines, one match of "foo" on the last line but one
FourLines == "ab\ncd\nfoo\nef\n"
\* two matches
TwoMatches == "foo\nab\nfoo"

\* the tree the behaviours start from
BaseFs ==
    ( "/w/proj/a.py"                :> File(SixLines)
   @@ "/w/proj/README.md"           :> File("# secret\n")
   @@ "/w/proj/.env"                :> File("KEY\n")
   @@ "/w/proj/src"                 :> Dir
   @@ "/w/proj/src/b.py"            :> File(FourLines)
   @@ "/w/proj/cache"               :> Dir
   @@ "/w/proj/cache/c.py"          :> File("ab\n")
   @@ "/w/proj/node_modules"        :> Dir
   @@ "/w/proj/node_modules/m.py"   :> File("ab\n")
   @@ "/w/proj/link"                :> Link("/w/proj2") )

\* directories and files the external actor leaves alone
FixedFs ==
    ( "/"           :> Dir
   @@ "/w"          :> Dir
   @@ "/w/proj"     :> Dir
   @@ "/w/proj2"    :> Dir
   @@ "/w/proj2/x"  :> File(TwoMatches) )

Node(path) ==
    IF path \in DOMAIN fs THEN fs[path]
    ELSE IF path \in DOMAIN FixedFs THEN FixedFs[path]
    ELSE Absent

Present == {p \in (DOMAIN fs) \cup (DOMAIN FixedFs) : Node(p).kind # "absent"}

\* os.path.dirname of an absolute path; the root is ""
Dirname(path) ==
    LET segs == Split(path, "/") IN Join(SubSeq(segs, 1, Len(segs) - 1), "/")

RootStr(path) == IF path = "" THEN "/" ELSE path

\* os.path.realpath, non-strict: symbolic links are followed, '..' steps up,
\* missing components are kept; "<loop>" when too many links are followed
RECURSIVE Realpath(_, _, _)
Realpath(done, rest, hops) ==
    IF rest = <<>> THEN RootStr(done)
    ELSE LET seg == Head(rest)
             cand == done \o "/" \o seg
         IN  IF seg = ".." THEN Realpath(Dirname(done), Tail(rest), hops)
             ELSE IF Node(cand).kind = "link"
                  THEN IF hops = 0 THEN "<loop>"
                       ELSE Realpath("", Segments(Node(cand).data) \o Tail(rest), hops - 1)
                  ELSE Realpath(cand, Tail(rest), hops)

\* (Path.cwd() / p).resolve() as a string, p given as the argument string
Resolve(filename) ==
    IF IsAbsolute(filename) THEN Realpath("", Segments(filename), MaxLinkHops)
    ELSE Realpath("", Segments(Cwd) \o Segments(filename), MaxLinkHops)

\* what a system call that follows links finds at the path: absent, file or dir
StatKind(filename) ==
    LET r == Resolve(filename) IN IF r = "<loop>" THEN "absent" ELSE Node(r).kind

(***************************************************************************)
(* utils/file_utils.py                                                     *)
(***************************************************************************)
\* the guard without its test for '..' parts
filename_unsafe_no_dotdot(filename) ==
    IF IsAbsolute(filename) THEN TRUE
    ELSE LET resolved == Resolve(filename)
         IN  IF resolved = "<loop>" THEN TRUE
             ELSE ~StartsWith(resolved, Resolve(Cwd))

filename_unsafe(filename) ==
    IF IsAbsolute(filename) THEN TRUE
    ELSE IF \E i \in 1..Len(Parts(filename)) : Parts(filename)[i] = ".." THEN TRUE
    ELSE LET resolved == Resolve(filename)
         IN  IF resolved = "<loop>" THEN TRUE
             ELSE ~StartsWith(resolved, Resolve(Cwd))

is_a_valid_file(file_path) == StatKind(file_path) = "file"

is_a_valid_directory(directory) == StatKind(directory) = "dir"

(***************************************************************************)
(* pathlib directory enumeration (Python 3.12, which the f-string at       *)
(* file_tools.py:58 requires).                                             *)
(***************************************************************************)
\* the entries below the directory at absolute path d, at any depth; a
\* symbolic link is an entry and is not descended into
Descendants(d) == {p \in Present : StartsWith(p, d \o "/")}

ChildrenOf(d) == {p \in Present : p # "/" /\ RootStr(Dirname(p)) = d}

\* p.is_file() of the entry at absolute path p: follows a link
EntryIsFile(p) ==
    LET r == Realpath("", Segments(p), MaxLinkHops)
    IN  r # "<loop>" /\ Node(r).kind = "file"

\* the parts of the Path that enumeration of `directory` yields for entry p
EntryParts(directory, d, p) ==
    Parts(directory) \o Split(SubSeq(p, Len(d) + 2, Len(p)), "/")

\* Path(directory).rglob("*"): every descendant; nothing when the directory
\* is missing or is no directory (glob() tests is_dir() and ignores OSError)
Rglob(directory) ==
    IF StatKind(directory) # "dir" THEN {}
    ELSE LET d == Resolve(directory)
         IN  {<<EntryParts(directory, d, p), EntryIsFile(p)>> : p \in Descendants(d)}

\* Path(directory).iterdir() of an existing directory
Iterdir(directory) ==
    LET d == Resolve(directory)
    IN  {<<EntryParts(directory, d, p), EntryIsFile(p)>> : p \in ChildrenOf(d)}

(***************************************************************************)
(* tools/file_tools.py: list_files                                         *)
(***************************************************************************)
SkippedByListFiles == {"node_modules", "vendor", "dist", "build", "public"}

SkippedByStructure ==
    {"node_modules", "vendor", "dist", "storage", "build", "public", "cache", "logs"}

Hidden(part) == StartsWith(part, ".")

\* the filter of the recursive walk without its test for hidden parts
ListedNoHiddenTest(parts) == ~\E i \in 1..Len(parts) : parts[i] \in SkippedByListFiles

\* file_tools.py:88
Listed(parts) ==
    /\ ~\E i \in 1..Len(parts) : Hidden(parts[i])
    /\ ~\E i \in 1..Len(parts) : parts[i] \in SkippedByListFiles

\* str(p) for a file, str(p) + "/" for anything else
EntryStr(e) == IF e[2] THEN PathStr(e[1]) ELSE PathStr(e[1]) \o "/"

\* the walk joined in the order the directories yield their entries
ListRecursiveUnsorted(directory) ==
    Join(ReverseSortedSet({EntryStr(e) : e \in {x \in Rglob(directory) : Listed(x[1])}}), "\n")

\* file_tools.py:86-94
ListRecursive(directory) ==
    Join(SortedSet({EntryStr(e) : e \in {x \in Rglob(directory) : Listed(x[1])}}), "\n")

\* file_tools.py:97-104: the strings of the non-hidden children
ListFlat(directory) ==
    {EntryStr(e) : e \in {x \in Iterdir(directory) : ~Hidden(x[1][Len(x[1])])}}

(***************************************************************************)
(* utils/file_utils.py: count_files                                        *)
(***************************************************************************)
Whitespace == {" ", "\n", "\t"}
Digits == "0123456789"

EndsWith(str, suffix) ==
    /\ Len(suffix) <= Len(str)
    /\ SubSeq(str, Len(str) - Len(suffix) + 1, Len(str)) = suffix

\* str.strip()
Strip(str) ==
    LET K == {i \in 1..Len(str) : CharAt(str, i) \notin Whitespace}
    IN  IF K = {} THEN ""
        ELSE SubSeq(str, CHOOSE i \in K : \A j \in K : i <= j,
                         CHOOSE i \in K : \A j \in K : j <= i)

\* str.split(sep)[0]: what comes before the first sep, all of str without one
BeforeFirst(str, sep) ==
    LET P == {i \in 1..(Len(str) - Len(sep) + 1) : SubSeq(str, i, i + Len(sep) - 1) = sep}
    IN  IF P = {} THEN str
        ELSE SubSeq(str, 1, (CHOOSE i \in P : \A j \in P : i <= j) - 1)

\* int(str) of an unsigned decimal numeral, blanks around it allowed;
\* -1 stands for ValueError
RECURSIVE DecimalValue(_)
DecimalValue(str) ==
    IF str = "" THEN 0
    ELSE 10 * DecimalValue(SubSeq(str, 1, Len(str) - 1))
         + ((CHOOSE i \in 1..10 : CharAt(Digits, i) = CharAt(str, Len(str))) - 1)

IntOf(str) ==
    LET s == Strip(str)
    IN  IF s # "" /\ \A i \in 1..Len(s) : \E k \in 1..10 : CharAt(Digits, k) = CharAt(s, i)
        THEN DecimalValue(s)
        ELSE -1

\* what one line adds to total_files (file_utils.py:77-97)
CountOfLine(line) ==
    IF Strip(line) = "" THEN 0
    ELSE IF Contains(line, "(") /\ Contains(line, " file")
         THEN LET file_count_str == BeforeFirst(Split(line, "(")[2], " file")
              IN  IF IntOf(file_count_str) >= 0 THEN IntOf(file_count_str) ELSE 0
         ELSE IF ~EndsWith(Strip(line), "/") /\ StartsWith(Strip(line), "- ")
              THEN 1
              ELSE 0

RECURSIVE SumCounts(_)
SumCounts(lines) ==
    IF lines = <<>> THEN 0 ELSE CountOfLine(Head(lines)) + SumCounts(Tail(lines))

\* file_utils.py:62-99
count_files(structure_output) == SumCounts(Split(Strip(structure_output), "\n"))

(***************************************************************************)
(* utils/file_utils.py: sanitise_mermaid_syntax.  The regular expressions  *)
(* are modelled by what they match, character by character.                *)
(***************************************************************************)
\* the character at position i, "" outside the string
At(str, i) == IF 1 <= i /\ i <= Len(str) THEN CharAt(str, i) ELSE ""

\* the n characters from position i, "" when there are not that many
Mid(str, i, n) == IF 1 <= i /\ i + n - 1 <= Len(str) THEN SubSeq(str, i, i + n - 1) ELSE ""

\* str.find(sub, from), 1-based; 0 when there is none
Find(str, sub, from) ==
    LET P == {i \in from..(Len(str) - Len(sub) + 1) : Mid(str, i, Len(sub)) = sub}
    IN  IF P = {} THEN 0 ELSE CHOOSE i \in P : \A j \in P : i <= j

\* str.replace(old, new, 1)
ReplaceFirst(str, old, new) ==
    LET i == Find(str, old, 1)
    IN  IF i = 0 THEN str
        ELSE SubSeq(str, 1, i - 1) \o new \o SubSeq(str, i + Len(old), Len(str))

\* str.replace(old, new): every occurrence, left to right
RECURSIVE ReplaceAll(_, _, _)
ReplaceAll(str, old, new) ==
    LET i == Find(str, old, 1)
    IN  IF i = 0 THEN str
        ELSE SubSeq(str, 1, i - 1) \o new
             \o ReplaceAll(SubSeq(str, i + Len(old), Len(str)), old, new)

\* \w, and the class [A-Za-z0-9_\-] of the two patterns
IsWord(c) == c # "" /\ Contains(UpperCase \o LowerCase \o Digits \o "_", c)
IsIdChar(c) == IsWord(c) \/ c = "-"
IsOpener(c) == c \in {"[", "{", "("}
IsCloser(c) == c \in {"]", "}", ")"}
IsForbidden(c) == c \in {"(", ")", "@", ":", "<", ">", "&"}

\* file_utils.py:132-134: re.sub(r'[^A-Za-z0-9_]', '_', node_id)
RECURSIVE sanitise_node_id(_)
sanitise_node_id(node_id) ==
    IF node_id = "" THEN ""
    ELSE (IF IsWord(Head(node_id)) THEN Head(node_id) ELSE "_")
         \o sanitise_node_id(Tail(node_id))

\* file_utils.py:136-138: re.sub(r'[()@:<>&]', '', label)
RECURSIVE sanitise_label(_)
sanitise_label(label) ==
    IF label = "" THEN ""
    ELSE (IF IsForbidden(Head(label)) THEN "" ELSE Head(label))
         \o sanitise_label(Tail(label))

\* the last position of the run of identifier characters that starts at pos
RunEnd(line, pos) ==
    LET N == {k \in pos..Len(line) : ~IsIdChar(At(line, k))}
    IN  IF N = {} THEN Len(line) ELSE (CHOOSE k \in N : \A j \in N : k <= j) - 1

\* the first closing bracket at or after pos, 0 when there is none
FirstCloser(line, pos) ==
    LET K == {k \in pos..Len(line) : IsCloser(At(line, k))}
    IN  IF K = {} THEN 0 ELSE CHOOSE k \in K : \A j \in K : k <= j

\* node_pattern.finditer(line) from pos on (file_utils.py:152-153): a run of
\* identifier characters, an opening bracket right after it, then everything
\* up to the first closing bracket of any kind
RECURSIVE NodeMatches(_, _)
NodeMatches(line, pos) ==
    IF pos > Len(line) THEN <<>>
    ELSE IF ~IsIdChar(At(line, pos)) THEN NodeMatches(line, pos + 1)
    ELSE LET e == RunEnd(line, pos)
             c == FirstCloser(line, e + 2)
         IN  IF IsOpener(At(line, e + 1)) /\ c # 0
             THEN <<[node_id |-> SubSeq(line, pos, e),
                     label_part |-> SubSeq(line, e + 1, c)]>>
                  \o NodeMatches(line, c + 1)
             ELSE NodeMatches(line, e + 1)

\* file_utils.py:154-165 for the matches in turn: each replaces the first
\* occurrence of the matched text in the line as it is by then
RECURSIVE ReplaceNodes(_, _)
ReplaceNodes(line, matches) ==
    IF matches = <<>> THEN line
    ELSE LET node_id == Head(matches).node_id
             label_part == Head(matches).label_part
             n == Len(label_part)
             new_part == sanitise_node_id(node_id) \o At(label_part, 1)
                         \o sanitise_label(SubSeq(label_part, 2, n - 1))
                         \o At(label_part, n)
         IN  ReplaceNodes(ReplaceFirst(line, node_id \o label_part, new_part),
                          Tail(matches))

\* the last '>' of an arrow \s*--?>+ that starts at pos, 0 when none does
ArrowEnd(line, pos) ==
    LET N == {k \in pos..(Len(line) + 1) : At(line, k) \notin Whitespace}
        k == CHOOSE i \in N : \A j \in N : i <= j
        g == IF At(line, k) # "-" THEN 0
             ELSE IF At(line, k + 1) = "-" /\ At(line, k + 2) = ">" THEN k + 2
             ELSE IF At(line, k + 1) = ">" THEN k + 1
             ELSE 0
        M == {i \in g..(Len(line) + 1) : At(line, i) # ">"}
    IN  IF g = 0 THEN 0 ELSE (CHOOSE i \in M : \A j \in M : i <= j) - 1

\* arrow_pattern.finditer(line) from pos on (file_utils.py:170-171): the
\* identifiers that stand, between word boundaries, before an arrow
RECURSIVE ArrowMatches(_, _)
ArrowMatches(line, pos) ==
    IF pos > Len(line) THEN <<>>
    ELSE IF ~IsIdChar(At(line, pos)) THEN ArrowMatches(line, pos + 1)
    ELSE LET t == RunEnd(line, pos)
             S == {s \in pos..t : IsWord(At(line, s))}
             s == CHOOSE i \in S : \A j \in S : i <= j
             E == {e \in s..t : /\ IsWord(At(line, e))
                                /\ ~IsWord(At(line, e + 1))
                                /\ ArrowEnd(line, e + 1) # 0}
             e == CHOOSE i \in E : \A j \in E : j <= i
         IN  IF S = {} \/ E = {} THEN ArrowMatches(line, t + 1)
             ELSE <<SubSeq(line, s, e)>> \o ArrowMatches(line, ArrowEnd(line, e + 1) + 1)

\* re.sub(r'\b' + re.escape(node_id) + r'\b', clean_id, line, count=1)
SubFirstWord(line, node_id, clean_id) ==
    LET P == {i \in 1..(Len(line) - Len(node_id) + 1) :
                /\ Mid(line, i, Len(node_id)) = node_id
                /\ ~IsWord(At(line, i - 1))
                /\ ~IsWord(At(line, i + Len(node_id)))}
        i == CHOOSE k \in P : \A j \in P : k <= j
    IN  IF P = {} THEN line
        ELSE SubSeq(line, 1, i - 1) \o clean_id
             \o SubSeq(line, i + Len(node_id), Len(line))

\* file_utils.py:172-176 for the matches in turn
RECURSIVE ReplaceArrowIds(_, _)
ReplaceArrowIds(line, ids) ==
    IF ids = <<>> THEN line
    ELSE IF Head(ids) # sanitise_node_id(Head(ids))
         THEN ReplaceArrowIds(SubFirstWord(line, Head(ids), sanitise_node_id(Head(ids))),
                              Tail(ids))
         ELSE ReplaceArrowIds(line, Tail(ids))

\* str.lstrip()
LStrip(str) ==
    LET K == {i \in 1..Len(str) : CharAt(str, i) \notin Whitespace}
    IN  IF K = {} THEN "" ELSE SubSeq(str, CHOOSE i \in K : \A j \in K : i <= j, Len(str))

\* the test without its case for subgraph lines
IsDirectiveButSubgraph(line) ==
    \/ StartsWith(LStrip(line), "%%")
    \/ StartsWith(LStrip(line), "flowchart")
    \/ Strip(line) = "end"

\* file_utils.py:146: comments, the flowchart and subgraph lines, 'end'
IsDirective(line) ==
    \/ StartsWith(LStrip(line), "%%")
    \/ StartsWith(LStrip(line), "flowchart")
    \/ StartsWith(LStrip(line), "subgraph")
    \/ Strip(line) = "end"

\* file_utils.py:145-178 for one line
ProcessLine(line) ==
    IF IsDirective(line) THEN line
    ELSE LET defined == ReplaceNodes(line, NodeMatches(line, 1))
         IN  ReplaceArrowIds(defined, ArrowMatches(defined, 1))

\* file_utils.py:140-180
process_mermaid_block(block) ==
    LET lines == Split(block, "\n")
    IN  Join([i \in 1..Len(lines) |-> ProcessLine(lines[i])], "\n")

\* the grave accent, which a string of this module cannot hold: '~' stands
\* for it in every text of the model
Tick == "~"
Fence == Tick \o Tick \o Tick

\* the opening fence at position i: the fence, mermaid or mermaidjs, a newline
FenceAt(text, i) ==
    IF Mid(text, i, 11) = Fence \o "mermaid\n" THEN Fence \o "mermaid\n"
    ELSE IF Mid(text, i, 13) = Fence \o "mermaidjs\n" THEN Fence \o "mermaidjs\n"
    ELSE ""

\* file_utils.py:183-186: the matches of (FENCEmermaid(?:js)?\n)(.*?)(FENCE)
\* from pos on, each with the position it starts at
RECURSIVE mermaid_block_iter(_, _)
mermaid_block_iter(text, pos) ==
    LET P == {i \in pos..Len(text) :
                FenceAt(text, i) # "" /\ Find(text, Fence, i + Len(FenceAt(text, i))) # 0}
        i == CHOOSE k \in P : \A j \in P : k <= j
        open == FenceAt(text, i)
        close == Find(text, Fence, i + Len(open))
    IN  IF P = {} THEN <<>>
        ELSE <<[start |-> i, open |-> open,
                block |-> SubSeq(text, i + Len(open), close - 1),
                whole |-> SubSeq(text, i, close + 2)]>>
             \o mermaid_block_iter(text, close + 3)

\* file_utils.py:189-193 for the matches in turn
RECURSIVE ReplaceBlocks(_, _)
ReplaceBlocks(new_text, matches) ==
    IF matches = <<>> THEN new_text
    ELSE LET m == Head(matches)
         IN  ReplaceBlocks(ReplaceAll(new_text, m.whole,
                                      m.open \o process_mermaid_block(m.block) \o Fence),
                           Tail(matches))

\* file_utils.py:120-195
sanitise_mermaid_syntax(text) == ReplaceBlocks(text, mermaid_block_iter(text, 1))

(***************************************************************************)
(* tools/file_tools.py: get_project_structure                              *)
(***************************************************************************)
\* item.name of the entry at absolute path p
Name(p) == LET segs == Split(p, "/") IN segs[Len(segs)]

\* item.is_dir() of the entry at absolute path p: follows a link
EntryIsDir(p) ==
    LET r == Realpath("", Segments(p), MaxLinkHops)
    IN  r # "<loop>" /\ Node(r).kind = "dir"

\* an indentation that does not grow with the depth
SpacesFlat(indent) == ""

RECURSIVE Spaces(_)
Spaces(indent) == IF indent = 0 THEN "" ELSE "  " \o Spaces(indent - 1)

\* the count of a directory line with the hidden children counted too
file_count_with_hidden(item) ==
    Cardinality(ChildrenOf(Realpath("", Segments(item), MaxLinkHops)))

\* file_tools.py:56: the children of the directory whose names do not start
\* with '.', whatever they are
file_count(item) ==
    Cardinality({f \in ChildrenOf(Realpath("", Segments(item), MaxLinkHops)) :
                    ~Hidden(Name(f))})

\* file_tools.py:58
DirLine(name, n, indent) ==
    Spaces(indent) \o "- " \o name \o "/ (" \o ToString(n) \o " "
        \o (IF n = 1 THEN "file" ELSE "files") \o ")"

\* file_tools.py:43-63; `path` is the directory as an absolute path, `items`
\* what is left of sorted(Path(path).iterdir()), by name
RECURSIVE list_dir_tree(_, _)
RECURSIVE TreeItems(_, _, _)
TreeItems(path, items, indent) ==
    IF items = <<>> THEN <<>>
    ELSE LET name == Head(items)
             item == path \o "/" \o name
             rest == TreeItems(path, Tail(items), indent)
         IN  IF Hidden(name) \/ name \in SkippedByStructure THEN rest
             ELSE IF EntryIsDir(item)
                  THEN <<DirLine(name, file_count(item), indent)>>
                       \o list_dir_tree(item, indent + 1) \o rest
                  ELSE IF indent = 0 THEN <<"- " \o name>> \o rest
                       ELSE rest

list_dir_tree(path, indent) ==
    TreeItems(path,
              SortedSet({Name(p) : p \in ChildrenOf(Realpath("", Segments(path), MaxLinkHops))}),
              indent)

\* what ProjectTypeAgent('.').run() may answer
ProjectTypes ==
    {[language |-> "Python", framework |-> "None"],
     [language |-> "PHP", framework |-> "Laravel"]}

\* file_tools.py:66-73
StructureOutput(project_type) ==
    LET structure == list_dir_tree(Cwd, 0)
        project_info == "\n\n## Estimated project type : " \o project_type.language
                        \o " / " \o project_type.framework \o "\n\n"
        output == Join(structure, "\n") \o project_info
    IN  output \o "\n\n## Total files: " \o ToString(count_files(output)) \o "\n\n"

(***************************************************************************)
(* tools/file_tools.py: cat_file, grep_file                                *)
(***************************************************************************)
ReadmeStub == "# README\n\n- TODO\n\n"

IsReadmePath(file_path) == Contains(Lower(file_path), "readme")

\* file.readlines(): the lines, each with its terminator
Readlines(content) ==
    LET pieces == Split(content, "\n")
        n == Len(pieces)
        whole == [k \in 1..(n - 1) |-> pieces[k] \o "\n"]
    IN  IF pieces[n] = "" THEN whole ELSE whole \o <<pieces[n]>>

\* the patterns of the model: a pattern of ordinary characters is searched
\* for as a substring; "(" does not compile
PatternCompiles(pattern) == pattern # "("

ReSearch(pattern, line) == Contains(line, pattern)

\* the count an agent leaves out: None is no number, and no count an agent
\* passes is this one
None == -1000

\* falsy counts become 0 (file_tools.py:136-139): `not n` holds of None and
\* of 0, and of no other integer
Normalise(n) == IF n = None \/ n = 0 THEN 0 ELSE n

Numbered(lines, j) == "Line: " \o ToString(j + 1) \o " - " \o lines[j + 1]

\* the entries appended for the match at 0-based index i (file_tools.py:149-165)
MatchGroup(lines, i, before, after) ==
    LET start_idx == Max(0, i - before)
        end_idx == Min(Len(lines), i + after + 1)
    IN  [k \in 1..Max(0, i - start_idx) |-> Numbered(lines, start_idx + k - 1)]
        \o <<Numbered(lines, i)>>
        \o [k \in 1..Max(0, end_idx - (i + 1)) |-> Numbered(lines, i + k)]
        \o (IF end_idx < Len(lines) THEN <<"---">> ELSE <<>>)

\* the list `matches` after lines i.. have been visited
RECURSIVE GrepMatches(_, _, _, _, _)
GrepMatches(lines, pattern, before, after, i) ==
    IF i >= Len(lines) THEN <<>>
    ELSE (IF ReSearch(pattern, lines[i + 1])
          THEN MatchGroup(lines, i, before, after) ELSE <<>>)
         \o GrepMatches(lines, pattern, before, after, i + 1)

GrepOutput(content, pattern, before, after) ==
    Join(GrepMatches(Readlines(content), pattern, Normalise(before), Normalise(after), 0), "\n")

(***************************************************************************)
(* What the agent may pass to the tools.                                   *)
(***************************************************************************)
ListPaths == {".", "src", "nope", "a.py", "link", "..", "src/..", "/w/proj/src", "/etc"}
CatPaths == {"a.py", "README.md", "nope", "src", "link/x", "../README.md"}
GrepPaths == {"a.py", "src/b.py", "link/x", "nope", ".."}
Patterns == {"foo", "("}

NoArgs ==
    [path |-> "", recursive |-> FALSE, pattern |-> "", before |-> 0, after |-> 0,
     text |-> ""]

ListArgs == {[NoArgs EXCEPT !.path = d, !.recursive = r] : d \in ListPaths, r \in BOOLEAN}
CatArgs == {[NoArgs EXCEPT !.path = f] : f \in CatPaths}
GrepArgs ==
    {[NoArgs EXCEPT !.path = f, !.pattern = q, !.before = b, !.after = a] :
        f \in GrepPaths, q \in Patterns, b \in 0..MaxCtx, a \in 0..MaxCtx}

\* the counts of every sign, and the count left out
AnyCount == {None} \cup (-MaxCtx..MaxCtx)
SearchedPaths == {"a.py", "src/b.py", "link/x", "README.md"}
AnyCountGrepArgs ==
    {[NoArgs EXCEPT !.path = f, !.pattern = "foo", !.before = b, !.after = a] :
        f \in SearchedPaths, b \in AnyCount, a \in AnyCount}

\* the texts given to sanitise_mermaid_syntax: a block of one node
\* definition, or of up to MaxBlockLines other lines, bare or with text
\* around it; and texts with no block, an unclosed block, a mermaidjs block,
\* two blocks, and a fence that opens right inside an empty block
NodeIds == {"User-Auth", "P_1"}
NodeLabels == {"Check (valid)", "a:b & c", "ok"}
Brackets == {<<"[", "]">>, <<"{", "}">>, <<"(", ")">>}
NodeDef(id, label, br) == id \o br[1] \o label \o br[2]
NodeDefLines == {NodeDef(id, label, br) : id \in NodeIds, label \in NodeLabels, br \in Brackets}
OtherLines ==
    {"flowchart TD", "  %% a-b[c:d]", "A-B[x:y] --> C", "A --> B-C",
     "X[A-B] A-B --> Q", "A-B-->C_D{e<f}"}

RECURSIVE LineSeqs(_)
LineSeqs(n) ==
    IF n = 0 THEN {<<>>}
    ELSE {<<l>> \o s : l \in OtherLines, s \in LineSeqs(n - 1)}

\* an edge from A-B, after text that holds A-B inside another identifier
ArrowPrefixes == {"", "QA-B; ", "Q-A-B; ", "A-B-C; "}
ArrowLines == {pre \o "A-B --> C" : pre \in ArrowPrefixes}

\* lines the sanitiser is to leave alone, and lines that only look like them
KeptLines ==
    {"  subgraph A-B[x:y] --> C-D", "flowchart LR; A-B[x:y] --> C", "  end",
     "\t%%A-B(x:y)", "end"}
NearlyKeptLines == {"end A-B[x:y]", "% A-B[x:y]"}

BlockBodies ==
    NodeDefLines \cup ArrowLines \cup KeptLines \cup NearlyKeptLines
    \cup {"A-B[x:y]\n  subgraph A-B[x:y]\nend\nC-D --> E"}
    \cup {Join(s, "\n") : s \in UNION {LineSeqs(n) : n \in 1..MaxBlockLines}}

MermaidBlock(body) == Fence \o "mermaid\n" \o body \o "\n" \o Fence
Around(block) == "See A-B[x:y] --> C:\n" \o block \o "\nDone A-B(q).\n"

FenceInsideEmptyBlock ==
    Fence \o "mermaid\n" \o MermaidBlock("A-B[l]") \o "\n" \o MermaidBlock("A-B[l]")

\* texts that are no well-formed diagram: a fence that never closes, brackets
\* that do not balance, lines that are empty or break off
MalformedTexts ==
    {"", Fence, Fence \o "mermaid\n", Fence \o "mermaid\nA-B[x --> C\n",
     MermaidBlock(""), MermaidBlock("A-B[x"), MermaidBlock("A-B[x --> C)"),
     MermaidBlock("]]A-B(("), MermaidBlock("-->"), MermaidBlock("A-B --"),
     MermaidBlock("\n\nA-B -\n")}

Texts ==
    MalformedTexts \cup
    {MermaidBlock(b) : b \in BlockBodies}
    \cup {Around(MermaidBlock(b)) : b \in BlockBodies}
    \cup {"no diagram, A-B[x(y)] --> C",
          Fence \o "mermaid\nA-B[x:y]",
          Fence \o "mermaidjs\nA-B[x:y]\n" \o Fence,
          MermaidBlock("A-B[x:y]") \o "\nthen A-B[x:y]\n" \o MermaidBlock("C-D --> E"),
          FenceInsideEmptyBlock}

NothingSeen == [resolved |-> "", check |-> "", body |-> "", data |-> ""]

\* no call has been delivered
NoCall == [op |-> "", args |-> NoArgs, fs |-> BaseFs, result |-> "", raised |-> "none"]

(***************************************************************************)
(* The external actor.                                                     *)
(***************************************************************************)
\* what the actor may put at a path: what the tree started with, a file in
\* place of the directory src, a directory in place of the file a.py, the
\* link pointing at the parent of the working directory
Shapes(p) ==
    {BaseFs[p]}
    \cup (IF p = "/w/proj/src" THEN {File("ab\n")} ELSE {})
    \cup (IF p = "/w/proj/a.py" THEN {Dir} ELSE {})
    \cup (IF p = "/w/proj/link" THEN {Link("/w")} ELSE {})

\* unlink, or rmtree of a directory
EnvRemove(p) ==
    /\ envSteps < MaxEnvSteps
    /\ fs[p].kind # "absent"
    /\ fs' = [q \in DOMAIN fs |->
                IF q = p \/ StartsWith(q, p \o "/") THEN Absent ELSE fs[q]]
    /\ envSteps' = envSteps + 1
    /\ UNCHANGED <<prev, pc, op, args, verdict, seen, io, result, raised>>

EnvCreate(p, node) ==
    /\ envSteps < MaxEnvSteps
    /\ fs[p].kind = "absent"
    /\ Node(RootStr(Dirname(p))).kind = "dir"
    /\ fs' = [fs EXCEPT ![p] = node]
    /\ envSteps' = envSteps + 1
    /\ UNCHANGED <<prev, pc, op, args, verdict, seen, io, result, raised>>

(***************************************************************************)
(* A tool call, step by step.                                              *)
(***************************************************************************)
Call(tool, a) ==
    /\ pc = "idle"
    /\ pc' = "guard"
    /\ op' = tool
    /\ args' = a
    /\ verdict' = FALSE
    /\ seen' = NothingSeen
    /\ io' = {}
    /\ result' = ""
    /\ raised' = "none"
    /\ UNCHANGED <<prev, fs, envSteps>>

Return(text) ==
    /\ pc' = "done"
    /\ result' = text
    /\ raised' = "none"

Raise(exception) ==
    /\ pc' = "done"
    /\ result' = ""
    /\ raised' = exception

\* a guard step that lets every path through
GuardLetsThrough ==
    /\ pc = "guard"
    /\ verdict' = filename_unsafe(args.path)
    /\ seen' = [seen EXCEPT !.resolved = Resolve(args.path)]
    /\ pc' = "valid"
    /\ UNCHANGED <<prev, fs, envSteps, op, args, io, result, raised>>

\* if filename_unsafe(...): return "Forbidden"  (file_tools.py:80, 113, 132)
Guard ==
    /\ pc = "guard"
    /\ verdict' = filename_unsafe(args.path)
    /\ IF verdict'
       THEN Return("Forbidden")
       ELSE pc' = "valid" /\ UNCHANGED <<result, raised>>
    /\ seen' = [seen EXCEPT !.resolved = Resolve(args.path)]
    /\ UNCHANGED <<prev, fs, envSteps, op, args, io>>

\* if not is_a_valid_directory(directory)  (file_tools.py:82)
ListValid ==
    /\ pc = "valid" /\ op = "list_files"
    /\ seen' = [seen EXCEPT !.check = StatKind(args.path)]
    /\ io' = io \cup {"exists"}
    /\ IF is_a_valid_directory(args.path)
       THEN pc' = "body" /\ UNCHANGED <<result, raised>>
       ELSE Return("Not a valid directory: " \o args.path)
    /\ UNCHANGED <<prev, fs, envSteps, op, args, verdict>>

\* the recursive branch  (file_tools.py:85-94)
ListBodyRecursive ==
    /\ pc = "body" /\ op = "list_files" /\ args.recursive
    /\ seen' = [seen EXCEPT !.body = StatKind(args.path)]
    /\ io' = io \cup {"rglob"}
    /\ Return(ListRecursive(args.path))
    /\ UNCHANGED <<prev, fs, envSteps, op, args, verdict>>

\* the non-recursive branch  (file_tools.py:95-106); the order in which a
\* directory yields its entries is the operating system's
ListBodyFlat ==
    /\ pc = "body" /\ op = "list_files" /\ ~args.recursive
    /\ seen' = [seen EXCEPT !.body = StatKind(args.path)]
    /\ io' = io \cup {"iterdir"}
    /\ CASE StatKind(args.path) = "absent" ->
                Return("Directory not found: " \o args.path)
         [] StatKind(args.path) = "file" ->
                Raise("NotADirectoryError")
         [] OTHER ->
                \E order \in {SortedSet(ListFlat(args.path)),
                              ReverseSortedSet(ListFlat(args.path))} :
                    Return(Join(order, "\n"))
    /\ UNCHANGED <<prev, fs, envSteps, op, args, verdict>>

\* cat_file without its readme rule
CatValidNoStub ==
    /\ pc = "valid" /\ op = "cat_file"
    /\ seen' = [seen EXCEPT !.check = StatKind(args.path)]
    /\ io' = io \cup {"exists"}
    /\ IF ~is_a_valid_file(args.path)
       THEN Return("Not a valid file: " \o args.path)
       ELSE pc' = "body" /\ UNCHANGED <<result, raised>>
    /\ UNCHANGED <<prev, fs, envSteps, op, args, verdict>>

\* file_tools.py:115-121
CatValid ==
    /\ pc = "valid" /\ op = "cat_file"
    /\ seen' = [seen EXCEPT !.check = StatKind(args.path)]
    /\ io' = io \cup {"exists"}
    /\ IF ~is_a_valid_file(args.path)
       THEN Return("Not a valid file: " \o args.path)
       ELSE IF IsReadmePath(args.path)
            THEN Return(ReadmeStub)
            ELSE pc' = "body" /\ UNCHANGED <<result, raised>>
    /\ UNCHANGED <<prev, fs, envSteps, op, args, verdict>>

\* cat_file answering a repeated call from the call before
CatBodyCached ==
    /\ pc = "body" /\ op = "cat_file"
    /\ seen' = [seen EXCEPT !.body = StatKind(args.path),
                            !.data = IF StatKind(args.path) = "file"
                                     THEN Node(Resolve(args.path)).data ELSE ""]
    /\ io' = io \cup {"open"}
    /\ IF prev.op = op /\ prev.args = args /\ prev.raised = "none"
       THEN Return(prev.result)
       ELSE CASE StatKind(args.path) = "absent" -> Return("File not found: " \o args.path)
              [] StatKind(args.path) = "dir" -> Raise("IsADirectoryError")
              [] OTHER -> Return(Node(Resolve(args.path)).data)
    /\ UNCHANGED <<prev, fs, envSteps, op, args, verdict>>

\* the open of cat_file with no handler for a missing file
CatBodyNoHandler ==
    /\ pc = "body" /\ op = "cat_file"
    /\ seen' = [seen EXCEPT !.body = StatKind(args.path),
                            !.data = IF StatKind(args.path) = "file"
                                     THEN Node(Resolve(args.path)).data ELSE ""]
    /\ io' = io \cup {"open"}
    /\ CASE StatKind(args.path) = "absent" -> Raise("FileNotFoundError")
         [] StatKind(args.path) = "dir" -> Raise("IsADirectoryError")
         [] OTHER -> Return(Node(Resolve(args.path)).data)
    /\ UNCHANGED <<prev, fs, envSteps, op, args, verdict>>

\* file_tools.py:122-126
CatBody ==
    /\ pc = "body" /\ op = "cat_file"
    /\ seen' = [seen EXCEPT !.body = StatKind(args.path),
                            !.data = IF StatKind(args.path) = "file"
                                     THEN Node(Resolve(args.path)).data ELSE ""]
    /\ io' = io \cup {"open"}
    /\ CASE StatKind(args.path) = "absent" -> Return("File not found: " \o args.path)
         [] StatKind(args.path) = "dir" -> Raise("IsADirectoryError")
         [] OTHER -> Return(Node(Resolve(args.path)).data)
    /\ UNCHANGED <<prev, fs, envSteps, op, args, verdict>>

\* file_tools.py:134-135
GrepValid ==
    /\ pc = "valid" /\ op = "grep_file"
    /\ seen' = [seen EXCEPT !.check = StatKind(args.path)]
    /\ io' = io \cup {"exists"}
    /\ IF ~is_a_valid_file(args.path)
       THEN Return("Not a valid file: " \o args.path)
       ELSE pc' = "body" /\ UNCHANGED <<result, raised>>
    /\ UNCHANGED <<prev, fs, envSteps, op, args, verdict>>

\* file_tools.py:136-169; re.search raises re.error at the first line it is
\* given a pattern that does not compile
GrepBody ==
    /\ pc = "body" /\ op = "grep_file"
    /\ seen' = [seen EXCEPT !.body = StatKind(args.path),
                            !.data = IF StatKind(args.path) = "file"
                                     THEN Node(Resolve(args.path)).data ELSE ""]
    /\ io' = io \cup {"open"}
    /\ CASE StatKind(args.path) = "absent" -> Return("File not found: " \o args.path)
         [] StatKind(args.path) = "dir" -> Raise("IsADirectoryError")
         [] OTHER ->
                LET content == Node(Resolve(args.path)).data
                IN  IF ~PatternCompiles(args.pattern) /\ Readlines(content) # <<>>
                    THEN Raise("re.error")
                    ELSE Return(GrepOutput(content, args.pattern, args.before, args.after))
    /\ UNCHANGED <<prev, fs, envSteps, op, args, verdict>>

\* a tool that takes no path starts at its body
CallBare(tool) ==
    /\ pc = "idle"
    /\ pc' = "body"
    /\ op' = tool
    /\ args' = NoArgs
    /\ verdict' = FALSE
    /\ seen' = NothingSeen
    /\ io' = {}
    /\ result' = ""
    /\ raised' = "none"
    /\ UNCHANGED <<prev, fs, envSteps>>

\* what running ['git', 'remote', '-v'] can come to: no git executable on the
\* PATH, git exiting 0 with its list of remotes (empty when there are none),
\* git exiting non-zero (no repository here) with its message on stderr
RemotesText == "origin\tgit@host:r.git (fetch)\norigin\tgit@host:r.git (push)\n"
GitRuns ==
    {[kind |-> "no git", returncode |-> 127, stdout |-> ""],
     [kind |-> "exit 0", returncode |-> 0, stdout |-> RemotesText],
     [kind |-> "exit 0", returncode |-> 0, stdout |-> ""],
     [kind |-> "exit non-zero", returncode |-> 128, stdout |-> ""]}

\* file_tools.py:172-177: subprocess.run raises FileNotFoundError when the
\* executable is missing, and the function has no handler; the return code
\* is never looked at
GitBody ==
    /\ pc = "body" /\ op = "get_git_remotes"
    /\ \E run \in GitRuns :
        /\ seen' = [seen EXCEPT !.body = run.kind]
        /\ IF run.kind = "no git"
           THEN Raise("FileNotFoundError")
           ELSE Return(run.stdout)
    /\ io' = io \cup {"subprocess"}
    /\ UNCHANGED <<prev, fs, envSteps, op, args, verdict>>

\* file_tools.py:65-73: the walk, the project type, the total
StructureBody ==
    /\ pc = "body" /\ op = "get_project_structure"
    /\ \E project_type \in ProjectTypes : Return(StructureOutput(project_type))
    /\ seen' = [seen EXCEPT !.body = StatKind(".")]
    /\ io' = io \cup {"iterdir"}
    /\ UNCHANGED <<prev, fs, envSteps, op, args, verdict>>

\* a function of one text is given its text
CallText(function, text) ==
    /\ pc = "idle"
    /\ pc' = "body"
    /\ op' = function
    /\ args' = [NoArgs EXCEPT !.text = text]
    /\ verdict' = FALSE
    /\ seen' = NothingSeen
    /\ io' = {}
    /\ result' = ""
    /\ raised' = "none"
    /\ UNCHANGED <<prev, fs, envSteps>>

\* a sanitiser that gives up on a fence that never closes
SanitiseBodyNeedsClosedFence ==
    /\ pc = "body" /\ op = "sanitise_mermaid_syntax"
    /\ IF Contains(args.text, Fence) /\ mermaid_block_iter(args.text, 1) = <<>>
       THEN Raise("ValueError")
       ELSE Return(sanitise_mermaid_syntax(args.text))
    /\ UNCHANGED <<prev, fs, envSteps, op, args, verdict, seen, io>>

\* file_utils.py:120-195
SanitiseBody ==
    /\ pc = "body" /\ op = "sanitise_mermaid_syntax"
    /\ Return(sanitise_mermaid_syntax(args.text))
    /\ UNCHANGED <<prev, fs, envSteps, op, args, verdict, seen, io>>

\* file_utils.py:113-114: the lines, without the first when it opens a fence
AfterOpeningFence(text) ==
    LET lines == Split(text, "\n")
    IN  IF StartsWith(lines[1], Fence \o "markdown") \/ StartsWith(lines[1], Fence)
        THEN Tail(lines) ELSE lines

\* file_utils.py:115: lines[-1] of an empty list
StripIndexError(text) == AfterOpeningFence(text) = <<>>

\* file_utils.py:102-117, on a text where lines[-1] exists
strip_markdown(text) ==
    LET lines == AfterOpeningFence(text)
    IN  IF EndsWith(lines[Len(lines)], Fence)
        THEN Join(SubSeq(lines, 1, Len(lines) - 1), "\n")
        ELSE Join(lines, "\n")

StripInputs ==
    {"", "abc", Fence, Fence \o "a", Fence \o "x" \o Fence, "x" \o Fence,
     Fence \o "\n" \o Fence, Fence \o "\nx", "a\n" \o Fence,
     Fence \o "markdown\nx\n" \o Fence, Fence \o "markdown\n# T\n\nbody\n" \o Fence,
     Fence \o "py\ncode\n" \o Fence \o "\n", "x\n\ny" \o Fence \o "\n",
     "a\nb" \o Fence \o "\nc", "a\n" \o Fence \o "\nb\n" \o Fence}

StripBody ==
    /\ pc = "body" /\ op = "strip_markdown"
    /\ IF StripIndexError(args.text)
       THEN Raise("IndexError")
       ELSE Return(strip_markdown(args.text))
    /\ UNCHANGED <<prev, fs, envSteps, op, args, verdict, seen, io>>

\* the agent loop takes the result; the next call starts from nothing
Deliver ==
    /\ pc = "done"
    /\ pc' = "idle"
    /\ op' = ""
    /\ args' = NoArgs
    /\ verdict' = FALSE
    /\ seen' = NothingSeen
    /\ io' = {}
    /\ result' = ""
    /\ raised' = "none"
    /\ UNCHANGED <<prev, fs, envSteps>>

Init ==
    /\ fs = BaseFs
    /\ envSteps = 0
    /\ pc = "idle"
    /\ op = ""
    /\ args = NoArgs
    /\ verdict = FALSE
    /\ seen = NothingSeen
    /\ io = {}
    /\ result = ""
    /\ raised = "none"
    /\ prev = NoCall

Next ==
    \/ \E a \in ListArgs : Call("list_files", a)
    \/ \E a \in CatArgs : Call("cat_file", a)
    \/ \E a \in GrepArgs : Call("grep_file", a)
    \/ CallBare("get_git_remotes")
    \/ Guard
    \/ ListValid
    \/ ListBodyRecursive
    \/ ListBodyFlat
    \/ CatValid
    \/ CatBody
    \/ GrepValid
    \/ GrepBody
    \/ GitBody
    \/ Deliver
    \/ \E p \in DOMAIN BaseFs : EnvRemove(p)
    \/ \E p \in DOMAIN BaseFs : \E node \in Shapes(p) : EnvCreate(p, node)

Spec == Init /\ [][Next]_vars

\* the tree with another text in README.md
ReadmeVariants == {"# secret\n", "foo\n"}
WithReadme(content) == [BaseFs EXCEPT !["/w/proj/README.md"] = File(content)]

InitGrep ==
    /\ fs \in {WithReadme(c) : c \in ReadmeVariants}
    /\ envSteps = 0
    /\ pc = "idle"
    /\ op = ""
    /\ args = NoArgs
    /\ verdict = FALSE
    /\ seen = NothingSeen
    /\ io = {}
    /\ result = ""
    /\ raised = "none"
    /\ prev = NoCall

\* grep_file alone, on a tree nobody else touches, with counts of every sign
NextGrep ==
    \/ \E a \in AnyCountGrepArgs : Call("grep_file", a)
    \/ Guard
    \/ GrepValid
    \/ GrepBody
    \/ Deliver

SpecGrep == InitGrep /\ [][NextGrep]_vars

\* the external actor writes another text to a file
EnvWrite(p, content) ==
    /\ envSteps < MaxEnvSteps
    /\ fs[p].kind = "file" /\ fs[p].data # content
    /\ fs' = [fs EXCEPT ![p] = File(content)]
    /\ envSteps' = envSteps + 1
    /\ UNCHANGED <<prev, pc, op, args, verdict, seen, io, result, raised>>

\* the agent loop takes the result, and the history keeps the call
DeliverAndKeep ==
    /\ pc = "done"
    /\ prev' = [op |-> op, args |-> args, fs |-> fs, result |-> result, raised |-> raised]
    /\ pc' = "idle"
    /\ op' = ""
    /\ args' = NoArgs
    /\ verdict' = FALSE
    /\ seen' = NothingSeen
    /\ io' = {}
    /\ result' = ""
    /\ raised' = "none"
    /\ UNCHANGED <<fs, envSteps>>

\* the calls an agent repeats, and the paths the actor changes between them
AgainListArgs == {[NoArgs EXCEPT !.path = ".", !.recursive = r] : r \in BOOLEAN}
AgainCatArgs == {[NoArgs EXCEPT !.path = "a.py"]}
AgainGrepArgs == {[NoArgs EXCEPT !.path = "a.py", !.pattern = "foo", !.before = 1]}
AgainPaths == {"/w/proj/a.py", "/w/proj/src/b.py"}
AgainContents == {SixLines, TwoMatches}

\* one call after another (file_tools.py:18-169), the actor changing the
\* tree between two calls: the agent loop runs one tool at a time
NextAgain ==
    \/ \E a \in AgainListArgs : Call("list_files", a)
    \/ \E a \in AgainCatArgs : Call("cat_file", a)
    \/ \E a \in AgainGrepArgs : Call("grep_file", a)
    \/ CallBare("get_project_structure")
    \/ Guard
    \/ ListValid
    \/ ListBodyRecursive
    \/ ListBodyFlat
    \/ CatValid
    \/ CatBody
    \/ GrepValid
    \/ GrepBody
    \/ StructureBody
    \/ DeliverAndKeep
    \/ \E p \in AgainPaths : pc = "idle" /\ EnvRemove(p)
    \/ \E p \in AgainPaths : \E node \in Shapes(p) : pc = "idle" /\ EnvCreate(p, node)
    \/ \E p \in AgainPaths : \E c \in AgainContents : pc = "idle" /\ EnvWrite(p, c)

SpecAgain == Init /\ [][NextAgain]_vars

\* the functions of the final text, on their own
NextText ==
    \/ \E x \in Texts : CallText("sanitise_mermaid_syntax", x)
    \/ SanitiseBody
    \/ \E x \in StripInputs : CallText("strip_markdown", x)
    \/ StripBody
    \/ Deliver

SpecText == Init /\ [][NextText]_vars

(***************************************************************************)
(* main.py: the program from its command line to the agent run.  The       *)
(* command line is in args, the locals prompt and request and the exit     *)
(* status in seen, what the program did in io.                             *)
(***************************************************************************)
Modes == {"code", "docs", "mermaid", "poem"}
\* --request: left out (or empty) or given
Requests == {"", "explain"}
\* what input() gives: an empty line, a line, or EOFError on a closed stdin
Typed == {"", "typed", "<EOF>"}
ReadmeRequest == "Please provide a GitHub style Readme.md for the codebase."

CommandLines ==
    [mode : Modes, request : Requests, no_readme : BOOLEAN, stdin : Typed]

NotExited == -1

InitMain ==
    /\ fs = BaseFs
    /\ envSteps = 0
    /\ pc = "main"
    /\ op = "main"
    /\ args \in CommandLines
    /\ verdict = FALSE
    /\ seen = [prompt |-> "", request |-> "", status |-> NotExited]
    /\ io = {}
    /\ result = ""
    /\ raised = "none"
    /\ prev = NoCall

\* an exception nobody catches: the traceback is printed, the status is 1
Uncaught(exception) ==
    /\ pc' = "exit"
    /\ raised' = exception
    /\ seen' = [seen EXCEPT !.status = 1]
    /\ io' = io \cup {"traceback"}
    /\ UNCHANGED <<prev, fs, envSteps, op, args, verdict, result>>

\* main.py:609-616
MainPrompt ==
    /\ pc = "main"
    /\ IF args.mode \in {"code", "docs", "mermaid"}
       THEN /\ pc' = "request"
            /\ seen' = [seen EXCEPT !.prompt = args.mode \o "_prompt"]
            /\ UNCHANGED <<prev, fs, envSteps, op, args, verdict, io, result, raised>>
       ELSE Uncaught("ValueError")

\* main.py:618-631
MainRequest ==
    /\ pc = "request"
    /\ IF args.mode \in {"code", "mermaid"}
       THEN IF args.request = ""
            THEN IF args.stdin = "<EOF>"
                 THEN Uncaught("EOFError")
                 ELSE /\ seen' = [seen EXCEPT !.request = args.stdin]
                      /\ io' = io \cup {"input"}
                      /\ pc' = "check"
                      /\ UNCHANGED <<prev, fs, envSteps, op, args, verdict, result, raised>>
            ELSE /\ seen' = [seen EXCEPT !.request = args.request]
                 /\ pc' = "check"
                 /\ UNCHANGED <<prev, fs, envSteps, op, args, verdict, io, result, raised>>
       ELSE /\ seen' = [seen EXCEPT !.request =
                          (IF args.no_readme THEN "" ELSE ReadmeRequest)
                          \o (IF args.request # ""
                              THEN "\n\n## User note\n\n" \o args.request ELSE "")]
            /\ pc' = "check"
            /\ UNCHANGED <<prev, fs, envSteps, op, args, verdict, io, result, raised>>

\* the program without its test of the request
MainCheckLetsThrough ==
    /\ pc = "check"
    /\ pc' = "agent"
    /\ UNCHANGED <<prev, fs, envSteps, op, args, verdict, seen, io, result, raised>>

\* main.py:633-635
MainCheck ==
    /\ pc = "check"
    /\ IF seen.request = ""
       THEN /\ pc' = "exit"
            /\ seen' = [seen EXCEPT !.status = 1]
            /\ io' = io \cup {"No request provided or inferrable from mode"}
            /\ UNCHANGED <<prev, fs, envSteps, op, args, verdict, result, raised>>
       ELSE /\ pc' = "agent"
            /\ UNCHANGED <<prev, fs, envSteps, op, args, verdict, seen, io, result, raised>>

\* main.py:637-648: Agent(...), then Runner.run_sync(agent, max_turns=50, input=request)
MainRun ==
    /\ pc = "agent"
    /\ pc' = "report"
    /\ io' = io \cup {"Agent", "Runner.run_sync"}
    /\ result' = "final output"
    /\ UNCHANGED <<prev, fs, envSteps, op, args, verdict, seen, raised>>

\* main.py:649-654: the usage and the final output are printed; the program ends
MainReport ==
    /\ pc = "report"
    /\ pc' = "exit"
    /\ seen' = [seen EXCEPT !.status = 0]
    /\ io' = io \cup {"print final output"}
    /\ UNCHANGED <<prev, fs, envSteps, op, args, verdict, result, raised>>

NextMain ==
    \/ MainPrompt
    \/ MainRequest
    \/ MainCheck
    \/ MainRun
    \/ MainReport

\* the interpreter runs the program to its end
SpecMain == InitMain /\ [][NextMain]_vars /\ WF_vars(NextMain)

\* working directories of other shapes
EmptyTree == ("/w/proj/gone" :> Absent)

\* three files at the top, a subdirectory of two
FiveFiles ==
    ( "/w/proj/a.py"      :> File("ab\n")
   @@ "/w/proj/b.py"      :> File("ab\n")
   @@ "/w/proj/c.py"      :> File("ab\n")
   @@ "/w/proj/sub"       :> Dir
   @@ "/w/proj/sub/x.py"  :> File("ab\n")
   @@ "/w/proj/sub/y.py"  :> File("ab\n") )

\* directories in directories, a hidden file, a directory of a skipped name,
\* an empty directory
Nested ==
    ( "/w/proj/m.py"            :> File("ab\n")
   @@ "/w/proj/src"             :> Dir
   @@ "/w/proj/src/lib"         :> Dir
   @@ "/w/proj/src/lib/.keep"   :> File("")
   @@ "/w/proj/src/lib/p.py"    :> File("ab\n")
   @@ "/w/proj/src/lib/q.py"    :> File("ab\n")
   @@ "/w/proj/src/lib/logs"    :> Dir
   @@ "/w/proj/docs"            :> Dir
   @@ "/w/proj/vendor"          :> Dir
   @@ "/w/proj/vendor/v.py"     :> File("ab\n") )

\* names with a parenthesis or " file" in them
OddNames ==
    ( "/w/proj/my file(1).py"        :> File("ab\n")
   @@ "/w/proj/notes (3 files).txt"  :> File("ab\n")
   @@ "/w/proj/lib(old)"             :> Dir
   @@ "/w/proj/lib(old)/a.py"        :> File("ab\n")
   @@ "/w/proj/lib(old)/b.py"        :> File("ab\n") )

Trees == {BaseFs, EmptyTree, FiveFiles, Nested, OddNames}

InitTree ==
    /\ fs \in Trees
    /\ envSteps = 0
    /\ pc = "idle"
    /\ op = ""
    /\ args = NoArgs
    /\ verdict = FALSE
    /\ seen = NothingSeen
    /\ io = {}
    /\ result = ""
    /\ raised = "none"
    /\ prev = NoCall

\* the two tools that describe the tree, on a tree nobody else touches
NextTree ==
    \/ CallBare("get_project_structure")
    \/ StructureBody
    \/ \E a \in ListArgs : Call("list_files", a)
    \/ Guard
    \/ ListValid
    \/ ListBodyRecursive
    \/ ListBodyFlat
    \/ Deliver

SpecTree == InitTree /\ [][NextTree]_vars

\* every entry but the root lies in a directory
WellFormed == \A p \in Present : p = "/" \/ Node(RootStr(Dirname(p))).kind = "dir"

(***************************************************************************)
(* Vocabulary of the properties.                                           *)
(***************************************************************************)
\* the tools that take a path and start at the guard
PathTools == {"list_files", "cat_file", "grep_file"}

GuardHasRun == op \in PathTools /\ pc \in {"valid", "body", "done"}

HasParentSegment(path) ==
    \E i \in 1..Len(Split(path, "/")) : Split(path, "/")[i] = ".."

\* the location is neither the working directory nor below it
OutsideCwd(location) == location # Cwd /\ ~StartsWith(location, Cwd \o "/")

\* the lines of a returned text
Lines(text) == Split(text, "\n")

NonBlankLines(text) == SelectSeq(Lines(text), LAMBDA t : t # "")

\* a recursive list_files call has returned a listing
Listing ==
    /\ pc = "done" /\ op = "list_files" /\ args.recursive
    /\ ~verdict /\ seen.check = "dir"

NoSegmentIn(text, names) ==
    \A i \in 1..Len(Lines(text)) :
        \A k \in 1..Len(Split(Lines(text)[i], "/")) :
            Split(Lines(text)[i], "/")[k] \notin names

NoHiddenSegment(text) ==
    \A i \in 1..Len(Lines(text)) :
        \A k \in 1..Len(Split(Lines(text)[i], "/")) :
            ~StartsWith(Split(Lines(text)[i], "/")[k], ".")

(***************************************************************************)
(* C1.  filename_unsafe returns True for every path that is absolute or    *)
(* has a segment equal to '..', whatever is on disk at the path.           *)
(***************************************************************************)
C1_RejectsAbsoluteAndParent ==
    (GuardHasRun /\ (CharAt(args.path, 1) = "/" \/ HasParentSegment(args.path)))
        => verdict

\* a path with '..' that exists and leads back into the working directory
C1_Witness ==
    /\ pc = "done" /\ verdict
    /\ args.path = "src/.."
    /\ seen.resolved = Cwd

(***************************************************************************)
(* C2.  filename_unsafe returns True for every relative path whose         *)
(* resolved location is neither the working directory nor below it.        *)
(***************************************************************************)
C2_RejectsEscapes ==
    (GuardHasRun /\ CharAt(args.path, 1) # "/" /\ OutsideCwd(seen.resolved))
        => verdict

(***************************************************************************)
(* C3.  When the guard rejects the path, list_files, cat_file and          *)
(* grep_file return exactly "Forbidden", raise nothing, and have made no   *)
(* existence check, enumeration or open.                                   *)
(***************************************************************************)
C3_ForbiddenFirst ==
    (pc = "done" /\ verdict)
        => (result = "Forbidden" /\ raised = "none" /\ io = {})

\* a rejected path at which nothing exists
C3_Witness ==
    /\ pc = "done" /\ verdict /\ result = "Forbidden"
    /\ op = "cat_file"
    /\ StatKind(args.path) = "absent"

(***************************************************************************)
(* C4 as stated.  cat_file on any path whose lowercase form contains       *)
(* "readme" returns exactly the stub.                                      *)
(***************************************************************************)
C4_AlwaysStub ==
    (pc = "done" /\ op = "cat_file" /\ Contains(Lower(args.path), "readme"))
        => result = ReadmeStub

(***************************************************************************)
(* C4 amended.  cat_file on a path whose lowercase form contains "readme"  *)
(* never opens the file: it returns "Forbidden" when the guard rejects the *)
(* path, "Not a valid file: <path>" when the path is no existing regular   *)
(* file, and exactly the stub otherwise.                                   *)
(***************************************************************************)
C4_StubForValidReadme ==
    (pc = "done" /\ op = "cat_file" /\ Contains(Lower(args.path), "readme"))
        => /\ raised = "none"
           /\ "open" \notin io
           /\ result = IF verdict THEN "Forbidden"
                       ELSE IF seen.check # "file" THEN "Not a valid file: " \o args.path
                       ELSE ReadmeStub

\* the README exists, is not empty, and the stub came back
C4_Witness ==
    /\ pc = "done" /\ op = "cat_file" /\ args.path = "README.md"
    /\ fs["/w/proj/README.md"].kind = "file"
    /\ fs["/w/proj/README.md"].data # ""
    /\ fs["/w/proj/README.md"].data # ReadmeStub
    /\ result = ReadmeStub

(***************************************************************************)
(* C5.  No line of a recursive listing has a segment named node_modules,   *)
(* vendor, dist, build or public, nor a segment that starts with '.'.      *)
(***************************************************************************)
C5_ListingSkipsFiveAndHidden ==
    Listing =>
        /\ NoSegmentIn(result, {"node_modules", "vendor", "dist", "build", "public"})
        /\ NoHiddenSegment(result)

\* a listing of a tree that holds node_modules/m.py and .env
C5_Witness ==
    /\ Listing /\ args.path = "." /\ envSteps = 0
    /\ Len(Lines(result)) >= 3

(***************************************************************************)
(* C6.  No line of a recursive listing has a segment named by the list of  *)
(* eight the structure summarizer skips.                                   *)
(***************************************************************************)
C6_ListingSkipsAllEight ==
    Listing => NoSegmentIn(result, SkippedByStructure)

(***************************************************************************)
(* C7.  The lines of a recursive listing are strictly increasing in        *)
(* lexicographic order.                                                    *)
(***************************************************************************)
C7_ListingStrictlySorted ==
    Listing =>
        \A i \in 1..(Len(Lines(result)) - 1) :
            StrLess(Lines(result)[i], Lines(result)[i + 1])

\* a listing of several lines, a directory and a file below it among them
C7_Witness ==
    /\ Listing /\ args.path = "."
    /\ Len(Lines(result)) >= 4
    /\ \E i \in 1..Len(Lines(result)) : Lines(result)[i] = "src/"
    /\ \E i \in 1..Len(Lines(result)) : Lines(result)[i] = "src/b.py"

(***************************************************************************)
(* C8.  list_files on a path the guard accepts that is no existing         *)
(* directory, or whose directory has disappeared by the time it is         *)
(* enumerated, raises nothing and returns a not-found string naming the    *)
(* directory, in both modes.                                               *)
(***************************************************************************)
C8_ListNotFoundIsText ==
    (/\ pc = "done" /\ op = "list_files" /\ ~verdict
     /\ (seen.check # "dir" \/ seen.body = "absent"))
        => /\ raised = "none"
           /\ result \in {"Not a valid directory: " \o args.path,
                          "Directory not found: " \o args.path}

StripNewline(line) ==
    IF Len(line) > 0 /\ CharAt(line, Len(line)) = "\n"
    THEN SubSeq(line, 1, Len(line) - 1) ELSE line

NumberedLine(lines, j) == "Line: " \o ToString(j + 1) \o " - " \o StripNewline(lines[j + 1])

\* the numbered lines from 0-based index lo to hi
Window(lines, lo, hi) == [k \in 1..Max(0, hi - lo + 1) |-> NumberedLine(lines, lo + k - 1)]

RECURSIVE ExpectedGroups(_, _, _, _, _)
ExpectedGroups(lines, pattern, b, a, i) ==
    IF i >= Len(lines) THEN <<>>
    ELSE (IF Contains(lines[i + 1], pattern)
          THEN Window(lines, Max(0, i - b), Min(Len(lines) - 1, i + a)) ELSE <<>>)
         \o ExpectedGroups(lines, pattern, b, a, i + 1)

MatchIndices(lines, pattern) ==
    {i \in 0..(Len(lines) - 1) : Contains(lines[i + 1], pattern)}

\* grep_file has read the file and searched it
Searched ==
    /\ pc = "done" /\ op = "grep_file" /\ ~verdict
    /\ seen.body = "file" /\ raised = "none"

\* C10, first half: the lines emitted for the matches, separators apart
C10_EmitsContext ==
    Searched =>
        SelectSeq(NonBlankLines(result), LAMBDA t : t # "---")
            = ExpectedGroups(Readlines(seen.data), args.pattern, args.before, args.after, 0)

\* C10, second half: with b = 2 and a = 1, a single match that has two lines
\* before it and one after it yields those four numbered lines and no other
C10_SingleMatchExactlyFour ==
    (/\ Searched /\ args.before = 2 /\ args.after = 1
     /\ \E i \in MatchIndices(Readlines(seen.data), args.pattern) :
            /\ MatchIndices(Readlines(seen.data), args.pattern) = {i}
            /\ i >= 2 /\ i + 1 <= Len(Readlines(seen.data)) - 1)
        => LET lines == Readlines(seen.data)
               i == CHOOSE k \in MatchIndices(lines, args.pattern) : TRUE
           IN  NonBlankLines(result) = Window(lines, i - 2, i + 1)

\* C10: every match is emitted with its context lines, numbered from 1, and
\* a single mid-file match with b = 2, a = 1 yields exactly four lines
C10_ContextAndExactlyFour == C10_EmitsContext /\ C10_SingleMatchExactlyFour

\* what the code returns for the tree the behaviours start from
AgreesWithRun ==
    (pc = "done" /\ envSteps = 0) =>
        /\ (op = "list_files" /\ args.path = "." /\ args.recursive)
            => result = "README.md\na.py\ncache/\ncache/c.py\nlink/\nsrc/\nsrc/b.py"
        /\ (op = "list_files" /\ args.path = "link" /\ args.recursive) => result = "link/x"
        /\ (op = "list_files" /\ args.path = "." /\ ~args.recursive)
            => result \in {"README.md\na.py\ncache/\nlink/\nnode_modules/\nsrc/",
                           "src/\nnode_modules/\nlink/\ncache/\na.py\nREADME.md"}
        /\ (op = "cat_file" /\ args.path = "link/x") => result = "foo\nab\nfoo"
        /\ (op = "grep_file" /\ args.path = "a.py" /\ args.pattern = "foo"
                /\ args.before = 2 /\ args.after = 1)
            => result = "Line: 1 - ab\n\nLine: 2 - cd\n\nLine: 3 - foo\n\nLine: 4 - ef\n\n---"
        /\ (op = "grep_file" /\ args.path = "src/b.py" /\ args.pattern = "foo"
                /\ args.before = 2 /\ args.after = 1)
            => result = "Line: 1 - ab\n\nLine: 2 - cd\n\nLine: 3 - foo\n\nLine: 4 - ef\n"
        /\ (op = "grep_file" /\ args.path = "link/x" /\ args.pattern = "foo"
                /\ args.before = 1 /\ args.after = 0)
            => result = "Line: 1 - foo\n\n---\nLine: 2 - ab\n\nLine: 3 - foo"
        /\ (op = "grep_file" /\ args.path = "a.py" /\ args.pattern = "(")
            => raised = "re.error"

\* ---------------------------------------------------------------------------
\* C11: grep_file called with a pattern that is not a well-formed regular
\* expression, on a file it goes on to search, returns a text that reports
\* the invalid pattern and raises nothing.
C11_InvalidPatternIsText ==
    (/\ pc = "done" /\ op = "grep_file"
     /\ seen.body = "file" /\ Readlines(seen.data) # <<>>
     /\ ~PatternCompiles(args.pattern))
        => /\ raised = "none"
           /\ Contains(Lower(result), "invalid")

\* ---------------------------------------------------------------------------
\* C12: a before or after count that is negative, None or 0 gives the same
\* grep_file result as the call with that count 0, wherever the matches are,
\* the last line included.
AsZero(n) == IF n = None \/ n <= 0 THEN 0 ELSE n

C12_NonPositiveCountsActAsZero ==
    (pc = "done" /\ op = "grep_file" /\ seen.body = "file")
        => /\ raised = "none"
           /\ result = GrepOutput(seen.data, args.pattern,
                                  AsZero(args.before), AsZero(args.after))

\* ---------------------------------------------------------------------------
\* C13: get_git_remotes never raises; when the git executable is missing or
\* git exits with a non-zero status its result is the empty string.
C13_GitFailureIsEmptyText ==
    (pc = "done" /\ op = "get_git_remotes")
        => /\ raised = "none"
           /\ seen.body \in {"no git", "exit non-zero"} => result = ""

\* ---------------------------------------------------------------------------
\* What the functions themselves return when they are run on these trees.
StructureFor(tree, project_type) ==
    (pc = "done" /\ op = "get_project_structure" /\ fs = tree
     /\ Contains(result, project_type))

AgreesWithRunOnTrees ==
    /\ StructureFor(EmptyTree, "Python / None")
        => result = "\n\n## Estimated project type : Python / None\n\n\n\n## Total files: 0\n\n"
    /\ StructureFor(FiveFiles, "Python / None")
        => result = "- a.py\n- b.py\n- c.py\n- sub/ (2 files)\n\n## Estimated project type : Python / None\n\n\n\n## Total files: 5\n\n"
    /\ StructureFor(Nested, "Python / None")
        => result = "- docs/ (0 files)\n- m.py\n- src/ (1 file)\n  - lib/ (3 files)\n\n## Estimated project type : Python / None\n\n\n\n## Total files: 5\n\n"
    /\ StructureFor(OddNames, "Python / None")
        => result = "- lib(old)/ (2 files)\n- my file(1).py\n- notes (3 files).txt\n\n## Estimated project type : Python / None\n\n\n\n## Total files: 3\n\n"
    /\ StructureFor(BaseFs, "Python / None")
        => result = "- README.md\n- a.py\n- link/ (1 file)\n- src/ (1 file)\n\n## Estimated project type : Python / None\n\n\n\n## Total files: 4\n\n"
    /\ (pc = "done" /\ op = "list_files" /\ args.path = "." /\ args.recursive)
        => /\ fs = EmptyTree => result = ""
           /\ fs = Nested => result = "docs/\nm.py\nsrc/\nsrc/lib/\nsrc/lib/logs/\nsrc/lib/p.py\nsrc/lib/q.py"
           /\ fs = OddNames => result = "lib(old)/\nlib(old)/a.py\nlib(old)/b.py\nmy file(1).py\nnotes (3 files).txt"

\* ---------------------------------------------------------------------------
\* The directories get_project_structure writes a line for: those below the
\* working directory reached through names that are neither hidden nor
\* skipped, a link to a directory counting as one.
StructureDone == pc = "done" /\ op = "get_project_structure"

RelativeParts(p) == Split(SubSeq(p, Len(Cwd) + 2, Len(p)), "/")

WalkedDirs ==
    {p \in Descendants(Cwd) :
        /\ EntryIsDir(p)
        /\ \A i \in 1..Len(RelativeParts(p)) :
              /\ ~Hidden(RelativeParts(p)[i])
              /\ RelativeParts(p)[i] \notin SkippedByStructure
        /\ \A i \in 1..(Len(RelativeParts(p)) - 1) :
              EntryIsDir(Cwd \o "/" \o Join(SubSeq(RelativeParts(p), 1, i), "/"))}

\* the children of the directory at p, or of the directory p links to
VisibleChildren(p) ==
    {f \in ChildrenOf(Realpath("", Segments(p), MaxLinkHops)) : ~StartsWith(Name(f), ".")}

\* the lines before the project type
TreeLines == Lines(BeforeFirst(result, "\n\n## Estimated project type"))

\* C14: every directory get_project_structure lists has the line
\* '- name/ (N file)' when N = 1 and '- name/ (N files)' otherwise, N the
\* number of its direct children whose name does not start with '.'; and
\* every line of the tree that ends in ')' after a '/ (' is such a line.
C14_DirectoryLineCountsVisibleChildren ==
    StructureDone =>
        /\ \A p \in WalkedDirs :
              LET N == Cardinality(VisibleChildren(p))
              IN  \E i \in 1..Len(TreeLines) :
                      Strip(TreeLines[i]) =
                          "- " \o Name(p) \o "/ (" \o ToString(N) \o " "
                               \o (IF N = 1 THEN "file)" ELSE "files)")
        /\ Cardinality({i \in 1..Len(TreeLines) : Contains(TreeLines[i], "/ (")})
              = Cardinality(WalkedDirs)

\* a tree with a directory of one child, one of none and one of three, one
\* child a directory and one hidden child not counted
C14_Witness ==
    /\ StructureDone
    /\ fs = Nested
    /\ \E p \in WalkedDirs : Cardinality(VisibleChildren(p)) = 1
    /\ \E p \in WalkedDirs : Cardinality(VisibleChildren(p)) = 0
    /\ \E p \in WalkedDirs : VisibleChildren(p) # ChildrenOf(p)

\* ---------------------------------------------------------------------------
\* the entries of the working directory that get a plain bullet
TopLevelFiles ==
    {p \in ChildrenOf(Cwd) :
        ~Hidden(Name(p)) /\ Name(p) \notin SkippedByStructure /\ ~EntryIsDir(p)}

RECURSIVE SumOfCounts(_)
SumOfCounts(dirs) ==
    IF dirs = {} THEN 0
    ELSE LET p == CHOOSE q \in dirs : TRUE
         IN  Cardinality(VisibleChildren(p)) + SumOfCounts(dirs \ {p})

\* C15: the 'Total files' figure is the number of top-level file bullets
\* plus the sum of the counts N of all the directory lines of the tree,
\* whatever the names are; 5 for three files and a subdirectory of two.
C15_TotalIsBulletsPlusAnnotations ==
    StructureDone =>
        /\ EndsWith(result,
                    "\n\n## Total files: "
                        \o ToString(Cardinality(TopLevelFiles) + SumOfCounts(WalkedDirs))
                        \o "\n\n")
        /\ fs = FiveFiles => EndsWith(result, "\n\n## Total files: 5\n\n")

\* ---------------------------------------------------------------------------
\* a line that is a file or directory bullet, at any depth
IsBullet(line) == StartsWith(Strip(line), "- ")

\* C16: in an empty working directory get_project_structure returns a text
\* with the root line '.', with no bullet and with 'Total files: 0', and
\* list_files(".", False) returns the empty string.
C16_EmptyDirectoryHasRootLine ==
    /\ (StructureDone /\ fs = EmptyTree)
          => /\ \E i \in 1..Len(Lines(result)) : Lines(result)[i] = "."
             /\ \A i \in 1..Len(Lines(result)) : ~IsBullet(Lines(result)[i])
             /\ Contains(result, "Total files: 0")
    /\ (pc = "done" /\ op = "list_files" /\ fs = EmptyTree
        /\ args.path = "." /\ ~args.recursive)
          => raised = "none" /\ result = ""

\* ---------------------------------------------------------------------------
Sanitised == pc = "done" /\ op = "sanitise_mermaid_syntax"

\* C17: sanitise_mermaid_syntax is idempotent: applied to its own result it
\* returns that result.
C17_SanitiseIdempotent ==
    Sanitised => sanitise_mermaid_syntax(result) = result

\* what the function itself returns for some of these texts
AgreesWithRunOnTexts ==
    Sanitised =>
        /\ args.text = MermaidBlock("A-B-->C_D{e<f}") => result = MermaidBlock("A_B-->C_D{ef}")
        /\ args.text = MermaidBlock("A-B[x:y] --> C\nA --> B-C")
              => result = MermaidBlock("A_B[xy] --> C\nA --> B-C")
        /\ args.text = MermaidBlock("  %% a-b[c:d]") => result = args.text
        /\ args.text = MermaidBlock("P_1(a:b & c)") => result = MermaidBlock("P_1(ab  c)")
        /\ args.text = Fence \o "mermaidjs\nA-B[x:y]\n" \o Fence
              => result = Fence \o "mermaidjs\nA_B[xy]\n" \o Fence

\* ---------------------------------------------------------------------------
\* C18: a node definition on a line of a mermaid block comes out with every
\* identifier character outside [A-Za-z0-9_] replaced by '_' and with the
\* characters ( ) @ : < > & removed from its label, the label's other
\* characters and its brackets kept; User-Auth[Check (valid)] becomes
\* User_Auth[Check valid].
C18_NodeDefinitionRewritten ==
    Sanitised =>
        /\ \A id \in NodeIds : \A label \in NodeLabels : \A br \in Brackets :
              args.text = MermaidBlock(NodeDef(id, label, br))
                  => result = MermaidBlock(NodeDef(sanitise_node_id(id),
                                                   sanitise_label(label), br))
        /\ args.text = MermaidBlock("User-Auth[Check (valid)]")
              => result = MermaidBlock("User_Auth[Check valid]")

\* ---------------------------------------------------------------------------
\* The node identifiers and labels a reader of the diagram finds on a line:
\* an identifier is a run of identifier characters without the dashes of an
\* arrow at its ends; its label runs from the bracket right after it to the
\* closing bracket of the same kind.
RECURSIVE TrimDashes(_)
TrimDashes(str) ==
    IF str = "" THEN ""
    ELSE IF Head(str) = "-" THEN TrimDashes(Tail(str))
    ELSE IF At(str, Len(str)) = "-" THEN TrimDashes(SubSeq(str, 1, Len(str) - 1))
    ELSE str

ClosingOf(open) == IF open = "[" THEN "]" ELSE IF open = "{" THEN "}" ELSE ")"

RECURSIVE NodesOn(_, _)
NodesOn(line, pos) ==
    IF pos > Len(line) THEN <<>>
    ELSE IF ~IsIdChar(At(line, pos)) THEN NodesOn(line, pos + 1)
    ELSE LET e == RunEnd(line, pos)
             id == TrimDashes(SubSeq(line, pos, e))
             labelled == IsOpener(At(line, e + 1))
             c == IF labelled THEN Find(line, ClosingOf(At(line, e + 1)), e + 2) ELSE 0
             last == IF c = 0 THEN Len(line) ELSE c - 1
         IN  (IF id = "" THEN <<>>
              ELSE <<[id |-> id,
                      label |-> IF labelled THEN SubSeq(line, e + 2, last) ELSE ""]>>)
             \o NodesOn(line, IF labelled THEN last + 2 ELSE e + 1)

\* the nodes on the lines of the mermaid blocks of a text, directives aside
NodesIn(text) ==
    LET blocks == mermaid_block_iter(text, 1)
    IN  UNION {UNION {{NodesOn(line, 1)[k] : k \in 1..Len(NodesOn(line, 1))} :
                        line \in {l \in {Split(blocks[b].block, "\n")[i] :
                                            i \in 1..Len(Split(blocks[b].block, "\n"))} :
                                    ~IsDirective(l)}} :
               b \in 1..Len(blocks)}

AllWord(str) == \A i \in 1..Len(str) : IsWord(At(str, i))
NoForbidden(str) == \A i \in 1..Len(str) : ~IsForbidden(At(str, i))

\* C19: in the result, inside every mermaid block, every node identifier
\* (defined, or the source or target of an edge) matches [A-Za-z0-9_]+ and
\* no node label holds any of ( ) @ : < > &.
C19_IdsAndLabelsClean ==
    Sanitised => \A node \in NodesIn(result) : AllWord(node.id) /\ NoForbidden(node.label)

\* ---------------------------------------------------------------------------
\* The text outside the mermaid blocks: what stands before the first block,
\* between two blocks, and after the last one.
RECURSIVE GapsFrom(_, _, _)
GapsFrom(text, blocks, pos) ==
    IF blocks = <<>> THEN <<SubSeq(text, pos, Len(text))>>
    ELSE <<SubSeq(text, pos, Head(blocks).start - 1)>>
         \o GapsFrom(text, Tail(blocks), Head(blocks).start + Len(Head(blocks).whole))

Gaps(text) == GapsFrom(text, mermaid_block_iter(text, 1), 1)

OpeningFences(text) ==
    [b \in 1..Len(mermaid_block_iter(text, 1)) |-> mermaid_block_iter(text, 1)[b].open]

\* C20: the result differs from the text only inside the mermaid blocks: the
\* text before, between and after the blocks and the fence lines are the
\* same, and a text with no block is returned as it is.
C20_OutsideBlocksUnchanged ==
    Sanitised =>
        /\ Gaps(result) = Gaps(args.text)
        /\ OpeningFences(result) = OpeningFences(args.text)
        /\ mermaid_block_iter(args.text, 1) = <<>> => result = args.text

KnownMode == args.mode \in {"code", "docs", "mermaid"}
AgentInvoked == "Runner.run_sync" \in io
Diagnosed == io \cap {"traceback", "No request provided or inferrable from mode"} # {}

\* the request text there is for the mode: what --request or the prompt on
\* stdin gives in the code and mermaid modes, the readme request and the user
\* note in the docs mode
RequestAvailable ==
    IF args.mode = "docs" THEN ~args.no_readme \/ args.request # ""
    ELSE args.request # "" \/ args.stdin \notin {"", "<EOF>"}

\* C22: the agent is run only with a known mode and a request text that is
\* not empty; with an unknown mode, or with no request text for the mode,
\* the program ends with a diagnostic and a non-zero status and has not run
\* the agent.
\* C22_Safe is the part of it that holds in every state.
C22_Safe ==
    /\ op = "main" /\ AgentInvoked => KnownMode /\ seen.request # "" /\ RequestAvailable
    /\ (op = "main" /\ pc = "exit" /\ (~KnownMode \/ ~RequestAvailable))
          => seen.status > 0 /\ Diagnosed /\ ~AgentInvoked
    /\ (op = "main" /\ (~KnownMode \/ ~RequestAvailable)) => pc \notin {"agent", "report"}

C22_AgentOnlyWithModeAndRequest ==
    /\ []C22_Safe
    /\ (op = "main" /\ (~KnownMode \/ ~RequestAvailable))
          ~> (pc = "exit" /\ seen.status > 0 /\ Diagnosed /\ ~AgentInvoked)

\* the docs mode with --no-readme and no request has ended
C22_Witness ==
    /\ op = "main" /\ pc = "exit"
    /\ args.mode = "docs" /\ args.no_readme /\ args.request = ""
    /\ seen.status = 1 /\ ~AgentInvoked

\* ---------------------------------------------------------------------------
\* the positions of the separator lines in a grep_file result
SeparatorsIn(text) == {i \in 1..Len(Lines(text)) : Lines(text)[i] = "---"}

\* C24: grep_file puts the separator '---' after a match group exactly when
\* another match group follows: one between every two consecutive groups,
\* none after the last.
C24_SeparatorOnlyBetweenGroups ==
    Searched =>
        LET groups == Cardinality(MatchIndices(Readlines(seen.data), args.pattern))
        IN  /\ Cardinality(SeparatorsIn(result)) = Max(0, groups - 1)
            /\ Len(Lines(result)) \notin SeparatorsIn(result)
            /\ 1 \notin SeparatorsIn(result)

\* ---------------------------------------------------------------------------
\* two spaces for every level below the top
RECURSIVE IndentOf(_)
IndentOf(levels) == IF levels <= 0 THEN "" ELSE "  " \o IndentOf(levels - 1)

\* C25: the tree has a line for every directory, at any depth, that is
\* reached through names neither hidden nor skipped, indented two spaces per
\* level; a line for every file at the top level that is neither; and no
\* other line: none for a file below the top level, none for a hidden or
\* skipped entry, none for anything beneath one.
C25_TreeLinesAreTheVisibleEntries ==
    StructureDone =>
        /\ \A p \in WalkedDirs :
              \E i \in 1..Len(TreeLines) :
                  StartsWith(TreeLines[i],
                             IndentOf(Len(RelativeParts(p)) - 1) \o "- " \o Name(p) \o "/ (")
        /\ \A f \in TopLevelFiles : \E i \in 1..Len(TreeLines) : TreeLines[i] = "- " \o Name(f)
        /\ Len(NonBlankLines(BeforeFirst(result, "\n\n## Estimated project type")))
              = Cardinality(WalkedDirs) + Cardinality(TopLevelFiles)

\* a tree with a directory two levels down, files below the top level, a
\* hidden file and skipped directories at two depths
C25_Witness ==
    /\ StructureDone /\ fs = Nested
    /\ \E p \in WalkedDirs : Len(RelativeParts(p)) = 2
    /\ \E p \in Present : StartsWith(p, Cwd \o "/") /\ Name(p) \in SkippedByStructure
                          /\ Len(RelativeParts(p)) = 3
    /\ Len(TreeLines) = 4

\* ---------------------------------------------------------------------------
\* C26: when the identifier before an arrow is normalised, that identifier
\* and nothing else of the line is rewritten: an identifier that only
\* contains it (Q-A-B on a line where A-B stands before the arrow) is left
\* as it is.
C26_ArrowIdRewrittenInPlace ==
    Sanitised =>
        \A pre \in ArrowPrefixes :
            args.text = MermaidBlock(pre \o "A-B --> C")
                => result = MermaidBlock(pre \o "A_B --> C")

\* ---------------------------------------------------------------------------
\* the lines of the k-th mermaid block of a text
BlockLines(text, k) == Split(mermaid_block_iter(text, 1)[k].block, "\n")

\* a comment, a flowchart directive, a subgraph line or the keyword end
WithoutIndent(line) ==
    IF \A i \in 1..Len(line) : CharAt(line, i) \in {" ", "\t"} THEN ""
    ELSE SubSeq(line, CHOOSE i \in 1..Len(line) :
                          /\ CharAt(line, i) \notin {" ", "\t"}
                          /\ \A j \in 1..(i - 1) : CharAt(line, j) \in {" ", "\t"},
                Len(line))

StructuralLine(line) ==
    \/ StartsWith(WithoutIndent(line), "%%")
    \/ StartsWith(WithoutIndent(line), "flowchart")
    \/ StartsWith(WithoutIndent(line), "subgraph")
    \/ Strip(line) = "end"

\* C27: in a mermaid block every comment line, flowchart directive, subgraph
\* line and 'end' line is in the output as it is in the input, whatever
\* identifiers, labels and arrows it holds.
C27_StructuralLinesKept ==
    Sanitised =>
        /\ Len(mermaid_block_iter(result, 1)) = Len(mermaid_block_iter(args.text, 1))
        /\ \A k \in 1..Len(mermaid_block_iter(args.text, 1)) :
              /\ Len(BlockLines(result, k)) = Len(BlockLines(args.text, k))
              /\ \A i \in 1..Len(BlockLines(args.text, k)) :
                    StructuralLine(BlockLines(args.text, k)[i])
                        => BlockLines(result, k)[i] = BlockLines(args.text, k)[i]

\* a subgraph line with an identifier, a label and an arrow to rewrite, kept
\* between two lines that are rewritten
C27_Witness ==
    /\ Sanitised
    /\ args.text = MermaidBlock("A-B[x:y]\n  subgraph A-B[x:y]\nend\nC-D --> E")
    /\ result = MermaidBlock("A_B[xy]\n  subgraph A-B[x:y]\nend\nC_D --> E")

\* ---------------------------------------------------------------------------
Stripped == pc = "done" /\ op = "strip_markdown"

\* the lines of text without `first` lines at the start and `last` at the end
Trimmed(text, first, last) ==
    Join(SubSeq(Split(text, "\n"), 1 + first, Len(Split(text, "\n")) - last), "\n")

\* C30: strip_markdown returns a string and raises nothing on every string,
\* the empty string and a one-line string among them; the result is the
\* input without its first line at most (only when that line starts with a
\* fence) and without its last line at most (only when that line ends with a
\* fence), every other line as it was.
C30_StripNeverRaisesAndTrimsEnds ==
    Stripped =>
        /\ raised = "none"
        /\ result \in STRING
        /\ \E first, last \in {0, 1} :
              /\ first = 1 => StartsWith(Split(args.text, "\n")[1], Fence)
              /\ last = 1 =>
                    EndsWith(Split(args.text, "\n")[Len(Split(args.text, "\n"))], Fence)
              /\ result = Trimmed(args.text, first, last)

\* the same on the texts of more than one line
C30_HoldsOnSeveralLines ==
    (Stripped /\ Len(Split(args.text, "\n")) > 1) =>
        /\ raised = "none"
        /\ \E first, last \in {0, 1} : result = Trimmed(args.text, first, last)

\* ---------------------------------------------------------------------------
\* the regular files with a name not starting with '.' directly in directory d
RegularFilesIn(d) == {f \in VisibleChildren(d) : EntryIsFile(f)}

\* those at the top level or in a directory the tree lists, each path once
ListedRegularFiles ==
    RegularFilesIn(Cwd) \cup UNION {RegularFilesIn(p) : p \in WalkedDirs}

\* the top-level files the tree leaves out for their name
UnlistedAtTop == {f \in RegularFilesIn(Cwd) : Name(f) \in SkippedByStructure}

ReportsTotal(n) == EndsWith(result, "\n\n## Total files: " \o ToString(n) \o "\n\n")

\* C28: the 'Total files' figure is the number of regular files, with a name
\* not starting with '.', at the top level or in a listed directory: a file
\* counts once and a subdirectory does not count, at any depth.  (A top-level
\* file of a skipped name may count or not.)
C28_TotalIsTheRegularFiles ==
    StructureDone =>
        \/ ReportsTotal(Cardinality(ListedRegularFiles))
        \/ ReportsTotal(Cardinality(ListedRegularFiles \ UnlistedAtTop))

\* the figure is right on the trees where no listed directory holds a
\* directory and no name misleads count_files
C28_HoldsWithoutNestedDirectories ==
    (StructureDone /\ fs \in {EmptyTree, FiveFiles}) =>
        ReportsTotal(Cardinality(ListedRegularFiles))

\* m.py, p.py and q.py are the regular files of the nested tree; the figure
\* is 5, the three and the directories src/lib and src/lib/logs
C28_NestedReportsFive ==
    (StructureDone /\ fs = Nested) =>
        Cardinality(ListedRegularFiles) = 3 /\ UnlistedAtTop = {} /\ ReportsTotal(5)

\* ---------------------------------------------------------------------------
\* C29: what a tool returns does not depend on the text of a README file:
\* on two trees that differ only in the text of a file with 'readme' in its
\* path, a call returns the same string.  For grep_file on such a file: the
\* result is what the same call returns when the file holds any other text.
C29_OutputIndependentOfReadme ==
    (Searched /\ IsReadmePath(args.path)) =>
        \A content \in ReadmeVariants :
            result = GrepOutput(content, args.pattern, args.before, args.after)

\* grep_file of a file that is not a README returns the same on both trees
C29_HoldsOffReadme ==
    (Searched /\ ~IsReadmePath(args.path) /\ Resolve(args.path) \in DOMAIN BaseFs) =>
        \A content \in ReadmeVariants :
            result = LET other == WithReadme(content)
                     IN  GrepOutput(other[Resolve(args.path)].data,
                                    args.pattern, args.before, args.after)

\* ---------------------------------------------------------------------------
\* the four tools that read the tree
TreeTools == {"list_files", "cat_file", "grep_file", "get_project_structure"}

ToolDone == pc = "done" /\ op \in TreeTools

\* a returned text without the project type, which is estimated outside
\* these tools: the tree before it and the total after it
TreeAndTotal(text) ==
    LET at == Find(text, "\n\n## Total files: ", 1)
    IN  <<BeforeFirst(text, "\n\n## Estimated project type"),
          IF at = 0 THEN "" ELSE SubSeq(text, at, Len(text))>>

LineSet(text) == {Lines(text)[i] : i \in 1..Len(Lines(text))}

\* two answers of the same call are the same string; for a directory read
\* without sorting, the same lines (the order is the operating system's),
\* and for the structure, the same tree and total
SameAnswer(tool, a, first, second) ==
    CASE tool = "get_project_structure" -> TreeAndTotal(first) = TreeAndTotal(second)
      [] tool = "list_files" /\ ~a.recursive ->
            LineSet(first) = LineSet(second) /\ Len(Lines(first)) = Len(Lines(second))
      [] OTHER -> first = second

\* what the tree of this state holds for the call: the text of the file, the
\* entries of the directory, the lines that match
ReadsThisTree ==
    CASE op = "cat_file" /\ StatKind(args.path) = "file" /\ ~IsReadmePath(args.path) ->
            result = Node(Resolve(args.path)).data
      [] op = "cat_file" /\ StatKind(args.path) # "file" ->
            result = "Not a valid file: " \o args.path
      [] op = "grep_file" /\ StatKind(args.path) = "file" ->
            result = GrepOutput(Node(Resolve(args.path)).data,
                                args.pattern, args.before, args.after)
      [] op = "grep_file" /\ StatKind(args.path) # "file" ->
            result = "Not a valid file: " \o args.path
      [] op = "list_files" /\ StatKind(args.path) = "dir" ->
            IF args.recursive THEN result = ListRecursive(args.path)
            ELSE LineSet(result) = (IF ListFlat(args.path) = {} THEN {""}
                                    ELSE ListFlat(args.path))
      [] op = "list_files" /\ StatKind(args.path) # "dir" ->
            result = "Not a valid directory: " \o args.path
      [] op = "get_project_structure" ->
            /\ TreeAndTotal(result)[1] = Join(list_dir_tree(Cwd, 0), "\n")
            /\ \A p \in WalkedDirs :
                  \E i \in 1..Len(TreeLines) :
                      StartsWith(Strip(TreeLines[i]), "- " \o Name(p) \o "/ (")
      [] OTHER -> TRUE

C23_Stateless ==
    ToolDone =>
        /\ (prev.op = op /\ prev.args = args /\ prev.fs = fs)
              => raised = prev.raised /\ SameAnswer(op, args, prev.result, result)
        /\ (~verdict /\ raised = "none") => ReadsThisTree

C23_RepeatedOnSameTree ==
    /\ pc = "done" /\ op = "list_files" /\ args.recursive /\ envSteps > 0
    /\ prev.op = op /\ prev.args = args /\ prev.fs = fs /\ prev.result = result

============================================================================
